---- MODULE Spec2Model ----
(***************************************************************************)
(* fiber_limiter: a rate-limiting middleware ("gate") for the fiber        *)
(* framework.  New(config) fills the defaults of the Config, builds one    *)
(* go_limiter.Limit and returns the per-request handler.  The handler asks *)
(* limiter.Allow for a decision and turns it into "next handler", the      *)
(* limit handler plus Retry-After, or the X-RateLimit-* headers.           *)
(*                                                                         *)
(* The rate algorithms (Sliding Window, GCRA) and the store live in the    *)
(* go_limiter library, which is not part of the sources; they are modelled *)
(* from sections 4.1, 4.2 and 4.4 of the specification.                    *)
(***************************************************************************)
EXTENDS Integers, Sequences, FiniteSets, TLC

VARIABLES
    phase,      \* "init" | "serving" | "panicked": where New got to
    config,     \* the Config captured by the returned closure, defaults filled
    limit,      \* the *go_limiter.Limit built by New
    limiter,    \* the go_limiter.Limiter: its Prefix
    clock,      \* wall-clock time, in ticks
    store,      \* the shared counter store: rate key -> entry
    resp,       \* what the last request did to its fiber.Ctx
    hist,       \* per caller key: the last two decisions and the run they are in
    left,       \* requests the model still serves
    until,      \* the time the clock stops at
    procs       \* the concurrent Allow calls of a race: each call's position

vars == <<phase, config, limit, limiter, clock, store, resp, hist, left, until,
          procs>>

---------------------------------------------------------------------------
(* Bounds of the model *)

\* clock resolution: ticks per second (time.Second is 10^9 ns in the source);
\* the handler reads time.Now() once per request
TicksPerSecond == 2
\* the one non-default Config.Period the model draws, in seconds
CustomPeriodSeconds == 5
\* the clock stops here when one key is called over and over, in ticks
MaxClock == 12
\* the clock stops here when a gate serves mixed requests, in ticks
GateMaxClock == 3
\* calls of one key
MaxCalls == 4
\* mixed requests served by one gate
MaxRequests == 3
\* concurrent Allow calls in a race
MaxProcs == 3

(* Program constants *)

SimpleAlgorithm == "simple"
GCRAAlgorithm == "gcra"
DefaultKeyPrefix == "fiber_limiter"
DefaultMessage == "Too many requests, please try again later."
\* http.StatusTooManyRequests
StatusTooManyRequests == 429
\* fiber's status of a fresh Ctx
StatusOK == 200
\* http.StatusInternalServerError
StatusInternalServerError == 500
DefaultMax == 10
DefaultBurst == 10
\* time.Minute, in seconds
MinuteSeconds == 60

Second == TicksPerSecond
Minute == MinuteSeconds * Second

Nil == "nil"
None == [kind |-> "none"]

---------------------------------------------------------------------------
(* Integer helpers *)

Max2(a, b) == IF a >= b THEN a ELSE b

Abs(a) == IF a < 0 THEN -a ELSE a

\* Go's integer division: truncated toward zero
Quo(a, b) ==
    IF (a >= 0) = (b > 0) THEN Abs(a) \div Abs(b) ELSE -(Abs(a) \div Abs(b))

\* floor(a / b)
FloorDiv(a, b) == IF b > 0 THEN a \div b ELSE (-a) \div (-b)

\* the decimal digits as characters
DigitChar == <<"0", "1", "2", "3", "4", "5", "6", "7", "8", "9">>

\* strconv.FormatInt(n, 10) / strconv.Itoa(n): the decimal digits, "-" first
RECURSIVE Digits(_)
Digits(n) ==
    IF n < 10 THEN <<DigitChar[n + 1]>>
    ELSE Append(Digits(n \div 10), DigitChar[(n % 10) + 1])

FormatInt(n) == IF n < 0 THEN <<"-">> \o Digits(-n) ELSE Digits(n)

\* the number a decimal string denotes (what a client reading the header gets)
DigitValue(ch) == CHOOSE d \in 0 .. 9 : DigitChar[d + 1] = ch

RECURSIVE DigitsValue(_)
DigitsValue(s) ==
    IF s = <<>> THEN 0
    ELSE 10 * DigitsValue(SubSeq(s, 1, Len(s) - 1)) + DigitValue(s[Len(s)])

ParseInt(s) ==
    IF s # <<>> /\ s[1] = "-" THEN -DigitsValue(Tail(s)) ELSE DigitsValue(s)

\* time.Time.Unix(): whole seconds since the epoch
Unix(t) == t \div Second

---------------------------------------------------------------------------
(* The Config a caller hands to New, and the requests a gate serves *)

Keys == {"a", "b"}

\* The Configs a caller can write over the values the model draws.  Nil is
\* Go's nil (a pointer or function field left unset); 0 and "" are the zero
\* values New replaces by its defaults.
AllConfigs ==
    [ Rediser    : {Nil, "client"},
      Max        : {-1, 0, 2},
      Burst      : {0, 2},
      StatusCode : {0, 503},
      Message    : {"", "slow down"},
      Algorithm  : {"", SimpleAlgorithm, GCRAAlgorithm},
      Prefix     : {"", "app"},
      Period     : {0, CustomPeriodSeconds * Second},
      Filter     : {Nil, "set"},
      Key        : {Nil, "custom"},
      Handler    : {Nil, "custom"} ]

\* the fields that do not reach the Limit are left unset
PlainResponse(c) ==
    /\ c.StatusCode = 0 /\ c.Message = "" /\ c.Filter = Nil /\ c.Handler = Nil
    /\ c.Key = Nil /\ c.Prefix = ""

\* the limit of the README's example, scaled: Max = Burst, a Period set
ExampleLimit(c) ==
    c.Max = 2 /\ c.Burst = 2 /\ c.Period # 0 /\ c.Rediser # Nil

\* Configs that vary the limit, the other fields unset
LimiterConfigs == {c \in AllConfigs : PlainResponse(c)}

\* the Configs the model constructs gates from: every limit with the other
\* fields unset, and every setting of the other fields on the example's limit
ConfigInputs == {c \in AllConfigs : PlainResponse(c) \/ ExampleLimit(c)}

\* A request: the remote IP, what a configured Filter answers for it and
\* whether the store fails while it is served.
Requests == [ip : Keys, filter : BOOLEAN, storeErr : BOOLEAN]

\* the requests a gate is shown: without a Filter nothing answers for it
RequestsOf(cfg) == {r \in Requests : cfg.Filter = Nil => ~r.filter}

---------------------------------------------------------------------------
(* go_limiter: the Limit, the decision and the two algorithms *)

\* prefix + ":" + algorithm-tag + ":" + caller-key
RateKey(prefix, algorithm, key) == <<prefix, algorithm, key>>

Decision(allowed, remaining, retryAfter, resetAfter) ==
    [Allowed |-> allowed, Remaining |-> remaining,
     RetryAfter |-> retryAfter, ResetAfter |-> resetAfter]

\* floor(now / period): the bucket a timestamp falls in
Bucket(now, period) == now \div period

\* time until the next period boundary
UntilBoundary(now, period) == (Bucket(now, period) + 1) * period - now

\* The counter of the bucket `now` falls in: a counter lives under
\* key + "_" + bucket with TTL = period, so an entry left by an earlier
\* bucket is another key (and has expired or is never read again).
BucketCount(entry, lim, now) ==
    IF entry.kind = "count" /\ entry.bucket = Bucket(now, lim.Period)
    THEN entry.count ELSE 0

\* IncrementAndExpire(key, ttl) -> newCount, as one atomic store operation
IncrementAndExpire(entry, lim, now) ==
    [kind |-> "count", bucket |-> Bucket(now, lim.Period),
     count |-> BucketCount(entry, lim, now) + 1]

\* Sliding Window, section 4.1: the decision for the incremented count
SlidingWindowCheck(count, lim, now) ==
    IF count > lim.Rate
    THEN Decision(FALSE, 0, UntilBoundary(now, lim.Period),
                  UntilBoundary(now, lim.Period))
    ELSE Decision(TRUE, lim.Rate - count, 0, UntilBoundary(now, lim.Period))

\* GCRA, section 4.2: emission interval T and burst tolerance tau
EmissionInterval(lim) == Quo(lim.Period, lim.Rate)

BurstTolerance(lim) == EmissionInterval(lim) * (lim.Burst - 1)

\* step 1: the stored TAT, `now` when the key is absent or idle >= period
ReadTAT(entry, now) ==
    IF entry.kind = "tat" /\ entry.exp > now
    THEN entry.tat ELSE now

Conforms(tat, lim, now) == now >= Max2(tat, now) - BurstTolerance(lim)

NewTAT(tat, lim, now) == Max2(tat, now) + EmissionInterval(lim)

\* steps 2 and 3: the decision for the TAT read
GCRACheck(tat, lim, now) ==
    LET T == EmissionInterval(lim)
        tau == BurstTolerance(lim)
        newTat == NewTAT(tat, lim, now)
    IN  IF Conforms(tat, lim, now)
        THEN Decision(TRUE, Max2(0, FloorDiv(tau - (newTat - now - T), T)),
                      0, newTat - now)
        ELSE Decision(FALSE, 0, Max2(tat, now) - tau - now, tat - now)

\* the entry a conforming call writes back
TATEntry(tat, lim, now) ==
    [kind |-> "tat", tat |-> NewTAT(tat, lim, now), exp |-> now + lim.Period]

\* limiter.Allow on an isolated store entry: the decision and the entry it
\* leaves, the read-compute-write sequence done as one atomic step
Allow(entry, lim, now) ==
    IF lim.Algorithm = GCRAAlgorithm
    THEN LET tat == ReadTAT(entry, now) IN
         [result |-> GCRACheck(tat, lim, now),
          entry  |-> IF Conforms(tat, lim, now)
                     THEN TATEntry(tat, lim, now) ELSE entry]
    ELSE LET e == IncrementAndExpire(entry, lim, now) IN
         [result |-> SlidingWindowCheck(e.count, lim, now), entry |-> e]

---------------------------------------------------------------------------
(* New: the defaults and the Limit *)

\* `if config.Algorithm == "" { ... }`, lines 86-88
DefaultAlgorithm(a) == IF a = "" THEN SimpleAlgorithm ELSE a

\* `if config.X == zero { config.X = default }`, lines 74-112
WithDefaults(c) ==
    [ Rediser    |-> c.Rediser,
      Max        |-> IF c.Max = 0 THEN DefaultMax ELSE c.Max,
      Burst      |-> IF c.Burst = 0 THEN DefaultBurst ELSE c.Burst,
      StatusCode |-> IF c.StatusCode = 0 THEN StatusTooManyRequests
                     ELSE c.StatusCode,
      Message    |-> IF c.Message = "" THEN DefaultMessage ELSE c.Message,
      Algorithm  |-> DefaultAlgorithm(c.Algorithm),
      Prefix     |-> IF c.Prefix = "" THEN DefaultKeyPrefix ELSE c.Prefix,
      Period     |-> IF c.Period = 0 THEN Minute ELSE c.Period,
      Filter     |-> c.Filter,
      Key        |-> IF c.Key = Nil THEN "ip" ELSE c.Key,
      Handler    |-> IF c.Handler = Nil THEN "default" ELSE c.Handler ]

\* NewLimit with Burst copied into Rate
NewLimitBurstAsRate(c) ==
    [Period |-> c.Period, Algorithm |-> c.Algorithm,
     Rate |-> c.Burst, Burst |-> c.Burst]

\* NewLimit with the algorithm fixed, config.Algorithm not passed on
NewLimitGCRA(c) ==
    [Period |-> c.Period, Algorithm |-> GCRAAlgorithm,
     Rate |-> c.Max, Burst |-> c.Burst]

\* NewLimit with the Burst field left out (Go's zero value)
NewLimitNoBurst(c) ==
    [Period |-> c.Period, Algorithm |-> c.Algorithm,
     Rate |-> c.Max, Burst |-> 0]

\* limit := &go_limiter.Limit{...}, lines 115-120
NewLimit(c) ==
    [Period |-> c.Period, Algorithm |-> c.Algorithm,
     Rate |-> c.Max, Burst |-> c.Burst]

\* MustPanic with the nil check lost
NeverPanics(c) == FALSE

\* `if config.Rediser == nil { panic(...) }`, lines 70-72
MustPanic(c) == c.Rediser = Nil

---------------------------------------------------------------------------
(* The handler New returns *)

HeaderNames ==
    {"Retry-After", "X-RateLimit-Limit", "X-RateLimit-Remaining",
     "X-RateLimit-Reset"}

NoHeaders == [h \in HeaderNames |-> <<>>]

NoDecision == Decision(FALSE, 0, 0, 0)

\* a fiber.Ctx nothing has touched yet
FreshCtx(req) ==
    [kind |-> "none", req |-> req, key |-> Nil, result |-> NoDecision,
     limitArg |-> Nil, nextCalls |-> 0, handlerCalls |-> 0, keyCalls |-> 0,
     allowCalls |-> 0, status |-> StatusOK, body |-> "",
     headers |-> NoHeaders]

NoRequest == [ip |-> Nil, filter |-> FALSE, storeErr |-> FALSE]

\* FilterSkips with the filter's answer inverted
FilterInverted(cfg, req) == cfg.Filter # Nil /\ ~req.filter

\* `config.Filter != nil && config.Filter(c)`, line 127
FilterSkips(cfg, req) == cfg.Filter # Nil /\ req.filter

\* the key a caller's own extractor returns: one key for every client
SharedKey == "b"

\* config.Key(c), line 132; the default is c.IP(), lines 80-84
KeyOf(cfg, req) == IF cfg.Key = "ip" THEN req.ip ELSE SharedKey

\* config.Handler(c): the default handler of lines 74-78 writes the status
\* code and the message; a caller's own handler is opaque
CallHandler(cfg, ctx) ==
    IF cfg.Handler = "default"
    THEN [ctx EXCEPT !.handlerCalls = @ + 1, !.status = cfg.StatusCode,
                     !.body = cfg.Message]
    ELSE [ctx EXCEPT !.handlerCalls = @ + 1]

\* c.Next()
CallNext(ctx) == [ctx EXCEPT !.nextCalls = @ + 1]

\* c.Set(name, value)
SetHeader(ctx, name, value) == [ctx EXCEPT !.headers[name] = value]

\* `if err != nil { c.Next(); return }`, lines 134-137
OnError(cfg, ctx) == CallNext([ctx EXCEPT !.kind = "error"])

\* OnLimited sending the seconds to wait instead of the Unix time
OnLimitedRelative(cfg, ctx, result, now) ==
    SetHeader(CallHandler(cfg, [ctx EXCEPT !.kind = "limited"]),
              "Retry-After", FormatInt(result.RetryAfter \div Second))

\* `if !result.Allowed { ... }`, lines 140-147
OnLimited(cfg, ctx, result, now) ==
    SetHeader(CallHandler(cfg, [ctx EXCEPT !.kind = "limited"]),
              "Retry-After", FormatInt(Unix(now + result.RetryAfter)))

\* OnAllowed reporting the burst as the limit
OnAllowedBurst(cfg, ctx, result, now) ==
    CallNext(
      SetHeader(
        SetHeader(
          SetHeader([ctx EXCEPT !.kind = "allowed"],
                    "X-RateLimit-Limit", FormatInt(cfg.Burst)),
          "X-RateLimit-Remaining", FormatInt(result.Remaining)),
        "X-RateLimit-Reset", FormatInt(Unix(now + result.ResetAfter))))

\* lines 150-154
OnAllowed(cfg, ctx, result, now) ==
    CallNext(
      SetHeader(
        SetHeader(
          SetHeader([ctx EXCEPT !.kind = "allowed"],
                    "X-RateLimit-Limit", FormatInt(cfg.Max)),
          "X-RateLimit-Remaining", FormatInt(result.Remaining)),
        "X-RateLimit-Reset", FormatInt(Unix(now + result.ResetAfter))))

\* the Ctx as limiter.Allow(config.Key(c), limit) is called, line 132
CallAllow(cfg, lim, ctx) ==
    [ctx EXCEPT !.key = KeyOf(cfg, ctx.req), !.keyCalls = @ + 1,
                !.allowCalls = @ + 1, !.limitArg = lim]

\* The closure of lines 125-155 on one request: the Ctx it leaves and the
\* store entry of the request's rate key.
Serve(cfg, lim, lmtr, st, now, req) ==
    IF FilterSkips(cfg, req)
    THEN [ctx |-> CallNext([FreshCtx(req) EXCEPT !.kind = "filtered"]),
          store |-> st, decided |-> FALSE]
    ELSE LET ctx == CallAllow(cfg, lim, FreshCtx(req))
             rk == RateKey(lmtr.Prefix, lim.Algorithm, ctx.key)
             out == Allow(st[rk], lim, now)
             got == [ctx EXCEPT !.result = out.result]
         IN  IF req.storeErr
             THEN [ctx |-> OnError(cfg, ctx), store |-> st, decided |-> FALSE]
             ELSE [ctx |-> IF out.result.Allowed
                           THEN OnAllowed(cfg, got, out.result, now)
                           ELSE OnLimited(cfg, got, out.result, now),
                   store |-> [st EXCEPT ![rk] = out.entry],
                   decided |-> TRUE]

---------------------------------------------------------------------------
(* History of the decisions per caller key *)

EmptyHist ==
    [n |-> 0, first |-> 0, inBucket |-> 0, same |-> 0,
     last |-> NoDecision, lastNow |-> 0, prev |-> NoDecision, prevNow |-> 0,
     before |-> None, after |-> None]

\* h after one more decision `d` at `now`, the entry going from b to a
Record(h, lim, now, d, b, a) ==
    [n |-> h.n + 1,
     first |-> IF h.n = 0 THEN now ELSE h.first,
     inBucket |-> IF h.n > 0 /\ Bucket(h.lastNow, lim.Period) = Bucket(now, lim.Period)
                  THEN h.inBucket + 1 ELSE 1,
     same |-> IF h.n > 0 /\ h.lastNow = now /\ h.same = h.n THEN h.same + 1
              ELSE IF h.n = 0 THEN 1 ELSE 0,
     last |-> d, lastNow |-> now, prev |-> h.last, prevNow |-> h.lastNow,
     before |-> b, after |-> a]

---------------------------------------------------------------------------
(* The state machine *)

Procs == 1 .. MaxProcs

\* the key the concurrent calls of a race share
RaceKey == "a"

AllRateKeys ==
    {RateKey(p, a, k) : p \in {DefaultKeyPrefix, "app"},
                        a \in {SimpleAlgorithm, GCRAAlgorithm}, k \in Keys}

ProcAt(pc) == [pc |-> pc, seen |-> None, result |-> NoDecision]

InitCommon ==
    /\ phase = "init"
    /\ config = Nil
    /\ limit = Nil
    /\ limiter = Nil
    /\ store = [rk \in AllRateKeys |-> None]
    /\ resp = FreshCtx(NoRequest)
    /\ hist = [k \in Keys |-> EmptyHist]

\* before New is called; the gate then serves mixed requests
Init ==
    /\ InitCommon
    /\ clock = 0
    /\ left = MaxRequests
    /\ until = GateMaxClock
    /\ procs = [p \in Procs |-> ProcAt("off")]

\* before New is called; the gate then serves one client again and again
InitCalls ==
    /\ InitCommon
    /\ clock = 0
    /\ left = MaxCalls
    /\ until = MaxClock
    /\ procs = [p \in Procs |-> ProcAt("off")]

\* before New is called; MaxProcs calls of limiter.Allow then race at one
\* instant on a key no call has touched
InitRace ==
    /\ InitCommon
    /\ clock \in 0 .. MaxClock
    /\ left = 0
    /\ until = clock
    /\ procs = [p \in Procs |-> ProcAt("idle")]

\* New(config), lines 69-124: panic without a store, else fill the defaults,
\* build the limiter and the limit and return the handler
New(c) ==
    /\ phase = "init"
    /\ IF MustPanic(c)
       THEN /\ phase' = "panicked"
            /\ UNCHANGED <<config, limit, limiter>>
       ELSE /\ phase' = "serving"
            /\ config' = WithDefaults(c)
            /\ limit' = NewLimit(WithDefaults(c))
            /\ limiter' = [Prefix |-> WithDefaults(c).Prefix]
    /\ UNCHANGED <<clock, store, resp, hist, left, until, procs>>

\* the returned handler serves one request, lines 125-155
Request(req) ==
    /\ phase = "serving"
    /\ left > 0
    /\ LET out == Serve(config, limit, limiter, store, clock, req)
           rk == RateKey(limiter.Prefix, limit.Algorithm, out.ctx.key)
       IN  /\ resp' = out.ctx
           /\ store' = out.store
           /\ hist' = IF out.decided
                      THEN [hist EXCEPT ![out.ctx.key] =
                              Record(@, limit, clock, out.ctx.result,
                                     store[rk], out.store[rk])]
                      ELSE hist
    /\ left' = left - 1
    /\ UNCHANGED <<phase, config, limit, limiter, clock, until, procs>>

\* time passes
Tick ==
    /\ clock < until
    /\ clock' = clock + 1
    /\ UNCHANGED <<phase, config, limit, limiter, store, resp, hist, left,
                   until, procs>>

\* a gate serving mixed requests
Next ==
    \/ phase = "init" /\ \E c \in ConfigInputs : New(c)
    \/ phase = "serving" /\ \E req \in RequestsOf(config) : Request(req)
    \/ Tick

Spec == Init /\ [][Next]_vars

\* the requests of one client, the store answering
CallsOf(key) == {r \in Requests : r.ip = key /\ ~r.filter /\ ~r.storeErr}

\* a gate serving one client again and again
NextCalls ==
    \/ phase = "init" /\ \E c \in LimiterConfigs : New(c)
    \/ phase = "serving" /\ \E req \in CallsOf(RaceKey) : Request(req)
    \/ Tick

SpecCalls == InitCalls /\ [][NextCalls]_vars

---------------------------------------------------------------------------
(* Concurrent calls of limiter.Allow: the atomic store operations interleave *)

RaceRateKey == RateKey(limiter.Prefix, limit.Algorithm, RaceKey)

\* Sliding Window: IncrementAndExpire is the call's one store operation
Increment(p) ==
    /\ phase = "serving"
    /\ limit.Algorithm # GCRAAlgorithm
    /\ procs[p].pc = "idle"
    /\ LET e == IncrementAndExpire(store[RaceRateKey], limit, clock) IN
       /\ store' = [store EXCEPT ![RaceRateKey] = e]
       /\ procs' = [procs EXCEPT ![p] =
                      [pc |-> "done", seen |-> None,
                       result |-> SlidingWindowCheck(e.count, limit, clock)]]
    /\ UNCHANGED <<phase, config, limit, limiter, clock, resp, hist, left, until>>

\* GCRA step 1: Get the stored TAT; a non-conforming call ends here, the
\* TAT left as it is
Get(p) ==
    /\ phase = "serving"
    /\ limit.Algorithm = GCRAAlgorithm
    /\ procs[p].pc = "idle"
    /\ LET seen == store[RaceRateKey]
           tat == ReadTAT(seen, clock)
       IN  procs' = [procs EXCEPT ![p] =
                       IF Conforms(tat, limit, clock)
                       THEN [pc |-> "cas", seen |-> seen, result |-> NoDecision]
                       ELSE [pc |-> "done", seen |-> seen,
                             result |-> GCRACheck(tat, limit, clock)]]
    /\ UNCHANGED <<phase, config, limit, limiter, clock, store, resp, hist,
                   left, until>>

\* the entry CompareAndSwap(key, expected, new) leaves: new only when the
\* stored value is still the expected one
CompareAndSwap(current, expected, new) ==
    IF current = expected THEN new ELSE current

\* GCRA step 2: write the new TAT back with CompareAndSwap; on a conflict the
\* call starts over
Swap(p) ==
    /\ phase = "serving"
    /\ procs[p].pc = "cas"
    /\ LET seen == procs[p].seen
           tat == ReadTAT(seen, clock)
           after == CompareAndSwap(store[RaceRateKey], seen,
                                   TATEntry(tat, limit, clock))
       IN  /\ store' = [store EXCEPT ![RaceRateKey] = after]
           /\ procs' = [procs EXCEPT ![p] =
                          IF store[RaceRateKey] = seen
                          THEN [pc |-> "done", seen |-> seen,
                                result |-> GCRACheck(tat, limit, clock)]
                          ELSE ProcAt("idle")]
    /\ UNCHANGED <<phase, config, limit, limiter, clock, resp, hist, left, until>>

NextRace ==
    \/ phase = "init" /\ \E c \in LimiterConfigs : New(c)
    \/ \E p \in Procs : Increment(p)
    \/ \E p \in Procs : Get(p)
    \/ \E p \in Procs : Swap(p)

SpecRace == InitRace /\ [][NextRace]_vars

\* the calls of the race that have returned allowed = true
Admitted == {p \in Procs : procs[p].pc = "done" /\ procs[p].result.Allowed}

---------------------------------------------------------------------------
(* Properties of the gate *)

\* the step is the handler serving one request
Served == left' = left - 1

RateLimitHeaders ==
    {"X-RateLimit-Limit", "X-RateLimit-Remaining", "X-RateLimit-Reset"}

\* C1 (as claimed): a request whose limiter.Allow call fails is, with
\* skipOnError left at its default false (this Config has no way to set it),
\* answered with a server error and not passed to the next handler; it is
\* neither an allow nor a deny: no limit handler, no Retry-After, no
\* X-RateLimit-* header.
C1_ErrorSurfaces ==
    resp.kind = "error" =>
        /\ resp.nextCalls = 0
        /\ resp.status = StatusInternalServerError
        /\ resp.handlerCalls = 0
        /\ resp.headers = NoHeaders

\* C3: without a store New panics before a handler exists, so nothing is
\* built and no request is ever served by a gate that has no store.
C3_PanicAtConstruction ==
    /\ phase = "panicked" =>
         config = Nil /\ limit = Nil /\ limiter = Nil /\ left = MaxRequests
         /\ resp.kind = "none"
    /\ phase = "serving" => config.Rediser # Nil
    /\ resp.kind # "none" => phase = "serving" /\ config.Rediser # Nil

C3_Witness == phase = "panicked" /\ clock > 0

\* C4: a request the configured filter answers true for bypasses the gate:
\* the next handler runs exactly once, neither the key extractor nor
\* limiter.Allow is called, no store entry (of any key) changes and no
\* Retry-After or X-RateLimit-* header is set.
C4_FilterBypass ==
    [][(Served /\ config.Filter # Nil /\ resp'.req.filter) =>
          /\ resp'.nextCalls = 1
          /\ resp'.keyCalls = 0
          /\ resp'.allowCalls = 0
          /\ resp'.handlerCalls = 0
          /\ resp'.headers = NoHeaders
          /\ store' = store
          /\ hist' = hist]_vars

C4_Witness ==
    /\ resp.kind = "filtered"
    /\ resp.nextCalls = 1
    /\ \E k \in Keys : hist[k].n >= 2

\* C5: a request decided allowed = false runs the limit handler exactly once
\* (the default one writes the configured status code and message, 429 and
\* the default message when none was configured), gets Retry-After = the
\* Unix time of now + Decision.retry_after, is not passed to the next handler
\* and gets no X-RateLimit-* header.
C5_Limited ==
    [][/\ (Served /\ resp'.allowCalls = 1 /\ ~resp'.req.storeErr
              /\ ~resp'.result.Allowed) =>
            /\ resp'.handlerCalls = 1
            /\ config.Handler = "default" =>
                  resp'.status = config.StatusCode /\ resp'.body = config.Message
            /\ resp'.headers["Retry-After"] # <<>>
            /\ ParseInt(resp'.headers["Retry-After"])
                  = Unix(clock + resp'.result.RetryAfter)
            /\ resp'.nextCalls = 0
            /\ \A h \in RateLimitHeaders : resp'.headers[h] = <<>>
       /\ phase = "init" => \A c \in ConfigInputs : New(c) /\ ~MustPanic(c) =>
            /\ config'.StatusCode =
                  IF c.StatusCode = 0 THEN StatusTooManyRequests ELSE c.StatusCode
            /\ config'.Message =
                  IF c.Message = "" THEN DefaultMessage ELSE c.Message]_vars

C5_Witness ==
    /\ resp.kind = "limited"
    /\ resp.status = StatusTooManyRequests
    /\ resp.body = DefaultMessage
    /\ resp.result.RetryAfter % Second # 0
    /\ config.Max > 0 /\ config.Burst > 0

\* C6: a request decided allowed = true gets X-RateLimit-Limit = the
\* configured max (10 when max was left unset), X-RateLimit-Remaining =
\* Decision.remaining and X-RateLimit-Reset = the Unix time of now +
\* Decision.reset_after, then the next handler runs exactly once; the limit
\* handler does not run and Retry-After is not set.
C6_Allowed ==
    [][/\ (Served /\ resp'.allowCalls = 1 /\ ~resp'.req.storeErr
              /\ resp'.result.Allowed) =>
            /\ \A h \in RateLimitHeaders : resp'.headers[h] # <<>>
            /\ ParseInt(resp'.headers["X-RateLimit-Limit"]) = config.Max
            /\ ParseInt(resp'.headers["X-RateLimit-Remaining"])
                  = resp'.result.Remaining
            /\ ParseInt(resp'.headers["X-RateLimit-Reset"])
                  = Unix(clock + resp'.result.ResetAfter)
            /\ resp'.nextCalls = 1
            /\ resp'.handlerCalls = 0
            /\ resp'.headers["Retry-After"] = <<>>
       /\ phase = "init" => \A c \in ConfigInputs : New(c) /\ ~MustPanic(c) =>
            config'.Max = IF c.Max = 0 THEN DefaultMax ELSE c.Max]_vars

C6_Witness ==
    /\ resp.kind = "allowed"
    /\ resp.headers["X-RateLimit-Limit"] = <<"1", "0">>
    /\ resp.result.ResetAfter % Second # 0
    /\ resp.nextCalls = 1

\* C7 (as claimed): whatever Config New accepts, the Limit it builds has
\* rate > 0, burst > 0 and period > 0, and every limiter.Allow call of the
\* gate gets that same Limit.
C7_LimitInvariant ==
    /\ phase = "serving" =>
         limit.Rate > 0 /\ limit.Burst > 0 /\ limit.Period > 0
    /\ resp.allowCalls > 0 => resp.limitArg = limit

---------------------------------------------------------------------------
(* Properties of the decisions *)

\* the key has been decided on at least twice, both times in one bucket
SameBucket(h) ==
    h.n >= 2 /\ Bucket(h.prevNow, config.Period) = Bucket(h.lastNow, config.Period)

\* C8: Sliding Window (the algorithm of a gate whose Config names none): the
\* k-th call of a key inside one period bucket is allowed iff k <= rate; an
\* allowed call has remaining = rate - k and reset_after = the time to the
\* next period boundary, a denied one remaining = 0 and retry_after = the
\* time to the next period boundary; the rate is the configured max.
C8_SlidingWindow ==
    (phase = "serving" /\ config.Algorithm = SimpleAlgorithm) =>
        \A key \in Keys :
            LET h == hist[key]
                k == h.inBucket
                boundary == UntilBoundary(h.lastNow, config.Period)
            IN  h.n > 0 =>
                  /\ h.last.Allowed <=> k <= config.Max
                  /\ h.last.Allowed =>
                        /\ h.last.Remaining = config.Max - k
                        /\ h.last.ResetAfter = boundary
                  /\ ~h.last.Allowed =>
                        /\ h.last.Remaining = 0
                        /\ h.last.RetryAfter = boundary

\* the fourth call of a bucket is denied, the rate being 2, and the call
\* before it was in an earlier bucket
C8_Witness ==
    /\ phase = "serving" /\ config.Algorithm = SimpleAlgorithm
    /\ config.Max = 2
    /\ \E key \in Keys :
          /\ hist[key].n = 4 /\ hist[key].inBucket = 3
          /\ ~hist[key].last.Allowed
          /\ hist[key].last.RetryAfter < config.Period

\* C9: GCRA with rate = burst = B and T = period / rate: of the calls made at
\* one instant on a fresh key exactly the first B are allowed, with remaining
\* B-1, ..., 0; every later one is denied with remaining = 0 and
\* retry_after = T, and leaves the stored TAT as it was.
C9_GCRABurst ==
    (phase = "serving" /\ config.Algorithm = GCRAAlgorithm
       /\ config.Max = config.Burst /\ config.Max > 0) =>
        \A key \in Keys :
            LET h == hist[key]
                B == config.Max
                j == h.same
            IN  (h.n > 0 /\ j = h.n) =>
                  /\ j <= B => h.last.Allowed /\ h.last.Remaining = B - j
                  /\ j > B =>
                        /\ ~h.last.Allowed
                        /\ h.last.Remaining = 0
                        /\ h.last.RetryAfter = Quo(config.Period, B)
                        /\ h.after = h.before

\* rate = burst = 2: the fourth call at one instant is the second one denied
C9_Witness ==
    /\ phase = "serving" /\ config.Algorithm = GCRAAlgorithm
    /\ config.Max = 2 /\ config.Burst = 2
    /\ \E key \in Keys :
          /\ hist[key].n = 4 /\ hist[key].same = 4
          /\ ~hist[key].last.Allowed /\ ~hist[key].prev.Allowed
          /\ hist[key].lastNow > 0

\* C10 (as claimed): of two successive calls of a key in one period bucket the
\* later never has the greater remaining, whatever the algorithm and the time
\* between them.
C10_RemainingMonotone ==
    phase = "serving" =>
        \A key \in Keys :
            SameBucket(hist[key]) =>
                hist[key].last.Remaining <= hist[key].prev.Remaining

\* C10 (amended): under Sliding Window the later of two successive calls of a
\* key in one period bucket never has the greater remaining; under GCRA the
\* same holds when at most one emission interval T = period / rate lies
\* between the two calls.
C10_RemainingMonotoneAmended ==
    phase = "serving" =>
        \A key \in Keys :
            LET h == hist[key] IN
            (/\ SameBucket(h)
             /\ config.Algorithm = GCRAAlgorithm =>
                   h.lastNow - h.prevNow <= Quo(config.Period, config.Max))
            => h.last.Remaining <= h.prev.Remaining

\* GCRA, two successive calls no more than T apart, time having passed
C10_Witness ==
    /\ phase = "serving" /\ config.Algorithm = GCRAAlgorithm
    /\ config.Max > 0 /\ config.Burst > 0
    /\ \E key \in Keys :
          LET h == hist[key] IN
          /\ SameBucket(h)
          /\ h.lastNow > h.prevNow
          /\ h.lastNow - h.prevNow <= Quo(config.Period, config.Max)
          /\ h.last.Allowed /\ h.prev.Allowed
          /\ h.last.Remaining < h.prev.Remaining

\* C2 (as claimed): of the concurrent calls on one fresh key at most
\* rate = R are allowed, whatever the algorithm and the burst.
C2_AtMostRate ==
    (phase = "serving" /\ limit.Rate > 0) => Cardinality(Admitted) <= limit.Rate

\* C2 (amended): of the concurrent calls made at one instant on one fresh key,
\* Sliding Window allows at most max (none when max <= 0); GCRA with a
\* positive rate allows at most burst (none when burst <= 0), so at most
\* rate only if burst <= rate.
C2_AtMostBudget ==
    phase = "serving" =>
        /\ config.Algorithm = SimpleAlgorithm =>
              Cardinality(Admitted) <= Max2(config.Max, 0)
        /\ (config.Algorithm = GCRAAlgorithm /\ config.Max > 0) =>
              Cardinality(Admitted) <= Max2(config.Burst, 0)

\* every call of the race has returned, one of them denied under each budget
C2_Witness ==
    /\ phase = "serving"
    /\ config.Max = 2 /\ config.Burst = 2
    /\ config.Algorithm = GCRAAlgorithm
    /\ \A p \in Procs : procs[p].pc = "done"
    /\ Cardinality(Admitted) = 2

====
